---- MODULE Spec2Model ----
(***************************************************************************)
(* State-machine model of the Amlogic Meson8b/AXG DWMAC glue layer         *)
(* (drivers/net/ethernet/stmicro/stmmac/dwmac-meson8b.c).                  *)
(*                                                                         *)
(* A u32 register value is modelled as the set of its set bit positions    *)
(* (a subset of 0..31): & is intersection, | is union, ~ is complement in  *)
(* 0..31.  Small naturals (delays in ns) are converted with Bits/Num.      *)
(***************************************************************************)
EXTENDS Integers, Sequences, FiniteSets, TLC

VARIABLES
    regs,           \* mapped register block: [{PRG_ETH0, PRG_ETH1} -> u32]
    regs0,          \* register block as it was before the driver touched it
    data,           \* dwmac->data: which set_phy_mode the match table selected
    phy_mode,       \* dwmac->phy_mode (of_get_phy_mode)
    dt_tx,          \* "amlogic,tx-delay-ns" property: <<ns>>, or Absent
    dt_rx,          \* "amlogic,rx-delay-ns" property: <<ns>>, or Absent
    dt_timing_adj,  \* "timing-adjustment" clock present in the device tree
    tx_delay_ns,    \* dwmac->tx_delay_ns
    rx_delay_ns,    \* dwmac->rx_delay_ns
    timing_adj_clk, \* dwmac->timing_adj_clk (NULL or a clock)
    clkin,          \* mux parents clkin0/clkin1: <<rate in Hz>>, or Absent
    rgmii_tx_clk,   \* dwmac->rgmii_tx_clk (NULL or a clock)
    clk_enables,    \* number of clk_prepare_enable calls that succeeded, per clock
    clk_disables,   \* number of clk_disable_unprepare calls, per clock
    devres,         \* devm actions registered on the device, in registration order
    pc,             \* position of the probe / teardown sequence
    ret,            \* return value of the probe
    log,            \* dev_err messages, in order
    ops             \* register and clock operations issued, in order

vars == <<regs, regs0, data, phy_mode, dt_tx, dt_rx, dt_timing_adj,
          tx_delay_ns, rx_delay_ns, timing_adj_clk, clkin, rgmii_tx_clk,
          clk_enables, clk_disables, devres, pc, ret, log, ops>>

----------------------------------------------------------------------------
(* Bounds of the model *)

MaxSeed == 2        \* prior register values are SeedVal(0..MaxSeed)
MaxTxDelay == 8     \* "amlogic,tx-delay-ns" ranges over 0..MaxTxDelay
MaxRxDelay == 2     \* "amlogic,rx-delay-ns" ranges over 0..MaxRxDelay

----------------------------------------------------------------------------
(* u32 values as bit sets *)

WORD == 0..31
NULL == "NULL"
Absent == <<>>      \* a property or clock the device tree does not give

BIT(n) == {n}
GENMASK(h, l) == l..h

And(a, b) == a \cap b
Or(a, b) == a \cup b
Not(a) == WORD \ a

\* bit set of a natural number below 2^31
Bits(n) == {i \in 0..30 : (n \div (2^i)) % 2 = 1}

RECURSIVE NumFrom(_, _)
NumFrom(s, i) == IF i > 30 THEN 0
                 ELSE (IF i \in s THEN 2^i ELSE 0) + NumFrom(s, i + 1)
\* natural number of a bit set within 0..30
Num(s) == NumFrom(s, 0)

Lowest(mask) == CHOOSE i \in mask : \A j \in mask : i <= j
ShiftLeft(s, n) == {i + n : i \in s} \cap WORD
ShiftRight(s, n) == {i - n : i \in s} \cap WORD

FIELD_PREP(mask, val) == And(ShiftLeft(Bits(val), Lowest(mask)), mask)
FIELD_GET(mask, reg) == Num(ShiftRight(And(reg, mask), Lowest(mask)))

SeedVal(i) == IF i = 0 THEN {}
              ELSE IF i = 1 THEN WORD
              ELSE {b \in WORD : (b \div (i - 1)) % 2 = 0}
Seeds == {SeedVal(i) : i \in 0..MaxSeed}

----------------------------------------------------------------------------
(* Register layout *)

PRG_ETH0 == 0
PRG_ETH1 == 4

PRG_ETH0_RGMII_MODE == BIT(0)
PRG_ETH0_EXT_PHY_MODE_MASK == GENMASK(2, 0)
PRG_ETH0_EXT_RGMII_MODE == 1
PRG_ETH0_EXT_RMII_MODE == 4
PRG_ETH0_CLK_M250_SEL_MASK == GENMASK(4, 4)
PRG_ETH0_TXDLY_MASK == GENMASK(6, 5)
PRG_ETH0_CLK_M250_DIV_SHIFT == 7
PRG_ETH0_CLK_M250_DIV_WIDTH == 3
PRG_ETH0_RGMII_TX_CLK_EN == 10
PRG_ETH0_INVERTED_RMII_CLK == BIT(11)
PRG_ETH0_TX_AND_PHY_REF_CLK == BIT(12)
PRG_ETH0_ADJ_ENABLE == BIT(13)
PRG_ETH0_ADJ_SETUP == BIT(14)
PRG_ETH0_ADJ_DELAY == GENMASK(19, 15)
PRG_ETH0_ADJ_SKEW == GENMASK(24, 20)
MUX_CLK_NUM_PARENTS == 2

\* mask of the divider field built from shift and width (m250_div)
M250_DIV_MASK == GENMASK(PRG_ETH0_CLK_M250_DIV_SHIFT + PRG_ETH0_CLK_M250_DIV_WIDTH - 1,
                         PRG_ETH0_CLK_M250_DIV_SHIFT)

PHY_INTERFACE_MODE_RGMII == "rgmii"
PHY_INTERFACE_MODE_RGMII_ID == "rgmii-id"
PHY_INTERFACE_MODE_RGMII_RXID == "rgmii-rxid"
PHY_INTERFACE_MODE_RGMII_TXID == "rgmii-txid"
PHY_INTERFACE_MODE_RMII == "rmii"
PHY_INTERFACE_MODE_MII == "mii"
PHY_MODE_MISSING == "missing"

RgmiiModes == {PHY_INTERFACE_MODE_RGMII, PHY_INTERFACE_MODE_RGMII_ID,
               PHY_INTERFACE_MODE_RGMII_RXID, PHY_INTERFACE_MODE_RGMII_TXID}
FiveModes == RgmiiModes \cup {PHY_INTERFACE_MODE_RMII}
PhyModes == FiveModes \cup {PHY_INTERFACE_MODE_MII, PHY_MODE_MISSING}

phy_interface_mode_is_rgmii(mode) == mode \in RgmiiModes

Policies == {"meson8b", "axg"}
TIMING_ADJ == "timing-adjustment"
RGMII_TX_EN == "rgmii_tx_en"
Clocks == {TIMING_ADJ, RGMII_TX_EN}
ClkinRates == {1000000000, 750000000, 850000000}   \* Hz

----------------------------------------------------------------------------
(* meson8b_dwmac_mask_bits *)

\* variant: the new value is OR-ed in without being masked
mask_bits_unmasked(r, reg, mask, value) ==
    LET data0 == r[reg]
        data1 == And(data0, Not(mask))
        data2 == Or(data1, value)
    IN  [r EXCEPT ![reg] = data2]

mask_bits(r, reg, mask, value) ==
    LET data0 == r[reg]
        data1 == And(data0, Not(mask))
        data2 == Or(data1, And(value, mask))
    IN  [r EXCEPT ![reg] = data2]

WriteOp(reg, mask, value) == [op |-> "mask_bits", reg |-> reg, mask |-> mask, value |-> value]
ClkOp(name, clk) == [op |-> name, clk |-> clk]

----------------------------------------------------------------------------
(* Initial states: the device as the probe finds it *)

Init ==
    /\ regs \in [{PRG_ETH0, PRG_ETH1} -> Seeds]
    /\ regs0 = regs
    /\ data \in Policies
    /\ phy_mode \in PhyModes
    /\ dt_tx \in {<<ns>> : ns \in 0..MaxTxDelay} \cup {Absent}
    /\ dt_rx \in {<<ns>> : ns \in 0..MaxRxDelay} \cup {Absent}
    /\ dt_timing_adj \in BOOLEAN
    /\ tx_delay_ns = 0
    /\ rx_delay_ns = 0
    /\ timing_adj_clk = NULL
    /\ clkin = [i \in 0..(MUX_CLK_NUM_PARENTS - 1) |-> Absent]
    /\ rgmii_tx_clk = NULL
    /\ clk_enables = [c \in Clocks |-> 0]
    /\ clk_disables = [c \in Clocks |-> 0]
    /\ devres = <<>>
    /\ pc = "probe"
    /\ ret = "0"
    /\ log = <<>>
    /\ ops = <<>>

----------------------------------------------------------------------------
(* meson8b_dwmac_probe, lines 443-472: read the configuration *)

\* variant: the RX delay is not validated
RxDelayValid_any(rx) == TRUE

RxDelayValid(rx) == ~(rx # 0 /\ rx # 2)

ProbeConfig ==
    /\ pc = "probe"
    /\ UNCHANGED <<regs, regs0, data, phy_mode, dt_tx, dt_rx, dt_timing_adj,
                   clkin, rgmii_tx_clk, clk_enables, clk_disables, devres, ops>>
    /\ IF phy_mode = PHY_MODE_MISSING
       THEN /\ log' = Append(log, "missing phy-mode property")
            /\ ret' = "-EINVAL"
            /\ pc' = "failed"
            /\ UNCHANGED <<tx_delay_ns, rx_delay_ns, timing_adj_clk>>
       ELSE LET tx == IF dt_tx = Absent THEN 2 ELSE dt_tx[1]
                rx == IF dt_rx = Absent THEN 0 ELSE dt_rx[1]
            IN  /\ tx_delay_ns' = tx
                /\ rx_delay_ns' = rx
                /\ IF ~RxDelayValid(rx)
                   THEN /\ log' = Append(log, "The only allowed RX delays values are: 0ns, 2ns")
                        /\ ret' = "-EINVAL"
                        /\ pc' = "failed"
                        /\ UNCHANGED timing_adj_clk
                   ELSE /\ timing_adj_clk' = IF dt_timing_adj THEN TIMING_ADJ ELSE NULL
                        /\ pc' = "init_rgmii_tx_clk"
                        /\ UNCHANGED <<ret, log>>

----------------------------------------------------------------------------
(* meson8b_init_rgmii_tx_clk: look up the mux parents, register the chain *)

\* result of the devm_clk_get loop: the index of the first missing parent,
\* or MUX_CLK_NUM_PARENTS when every parent was found
FirstMissing(cin) ==
    IF \E i \in DOMAIN cin : cin[i] = Absent
    THEN CHOOSE i \in DOMAIN cin : cin[i] = Absent /\ \A j \in DOMAIN cin : cin[j] = Absent => i <= j
    ELSE MUX_CLK_NUM_PARENTS

MissingClockMsg(i) == IF i = 0 THEN "Missing clock clkin0" ELSE "Missing clock clkin1"

InitRgmiiTxClk ==
    /\ pc = "init_rgmii_tx_clk"
    /\ \E cin \in [0..(MUX_CLK_NUM_PARENTS - 1) -> {<<r>> : r \in ClkinRates} \cup {Absent}] :
         /\ clkin' = cin
         /\ IF FirstMissing(cin) < MUX_CLK_NUM_PARENTS
            THEN /\ log' = Append(log, MissingClockMsg(FirstMissing(cin)))
                 /\ ret' = "-ENOENT"
                 /\ pc' = "failed"
                 /\ UNCHANGED rgmii_tx_clk
            ELSE /\ rgmii_tx_clk' = RGMII_TX_EN
                 /\ pc' = "set_phy_mode"
                 /\ UNCHANGED <<ret, log>>
    /\ UNCHANGED <<regs, regs0, data, phy_mode, dt_tx, dt_rx, dt_timing_adj,
                   tx_delay_ns, rx_delay_ns, timing_adj_clk,
                   clk_enables, clk_disables, devres, ops>>

----------------------------------------------------------------------------
(* set_phy_mode of the two chip families *)

\* variant: the legacy family writes the whole 3-bit field
meson8b_set_phy_mode_wide(mode) ==
    CASE mode \in {PHY_INTERFACE_MODE_RGMII, PHY_INTERFACE_MODE_RGMII_RXID,
                   PHY_INTERFACE_MODE_RGMII_ID, PHY_INTERFACE_MODE_RGMII_TXID}
           -> <<PRG_ETH0_EXT_PHY_MODE_MASK, PRG_ETH0_RGMII_MODE>>
      [] mode = PHY_INTERFACE_MODE_RMII
           -> <<PRG_ETH0_EXT_PHY_MODE_MASK, {}>>
      [] OTHER -> <<>>

\* (mask, value) written by meson8b_set_phy_mode, or <<>> for the default case
meson8b_set_phy_mode(mode) ==
    CASE mode \in {PHY_INTERFACE_MODE_RGMII, PHY_INTERFACE_MODE_RGMII_RXID,
                   PHY_INTERFACE_MODE_RGMII_ID, PHY_INTERFACE_MODE_RGMII_TXID}
           -> <<PRG_ETH0_RGMII_MODE, PRG_ETH0_RGMII_MODE>>
      [] mode = PHY_INTERFACE_MODE_RMII
           -> <<PRG_ETH0_RGMII_MODE, {}>>
      [] OTHER -> <<>>

\* (mask, value) written by meson_axg_set_phy_mode, or <<>> for the default case
meson_axg_set_phy_mode(mode) ==
    CASE mode \in {PHY_INTERFACE_MODE_RGMII, PHY_INTERFACE_MODE_RGMII_RXID,
                   PHY_INTERFACE_MODE_RGMII_ID, PHY_INTERFACE_MODE_RGMII_TXID}
           -> <<PRG_ETH0_EXT_PHY_MODE_MASK, Bits(PRG_ETH0_EXT_RGMII_MODE)>>
      [] mode = PHY_INTERFACE_MODE_RMII
           -> <<PRG_ETH0_EXT_PHY_MODE_MASK, Bits(PRG_ETH0_EXT_RMII_MODE)>>
      [] OTHER -> <<>>

SetPhyMode ==
    /\ pc = "set_phy_mode"
    /\ LET w == IF data = "meson8b" THEN meson8b_set_phy_mode(phy_mode)
                                    ELSE meson_axg_set_phy_mode(phy_mode)
       IN  IF w = <<>>
           THEN /\ log' = Append(log, "fail to set phy-mode")
                /\ ret' = "-EINVAL"
                /\ pc' = "failed"
                /\ UNCHANGED <<regs, ops>>
           ELSE /\ regs' = mask_bits(regs, PRG_ETH0, w[1], w[2])
                /\ ops' = Append(ops, WriteOp(PRG_ETH0, w[1], w[2]))
                /\ pc' = "init_prg_eth"
                /\ UNCHANGED <<ret, log>>
    /\ UNCHANGED <<regs0, data, phy_mode, dt_tx, dt_rx, dt_timing_adj,
                   tx_delay_ns, rx_delay_ns, timing_adj_clk, clkin, rgmii_tx_clk,
                   clk_enables, clk_disables, devres>>

----------------------------------------------------------------------------
(* meson8b_devm_clk_prepare_enable and the devm action it registers *)

\* the devm action added after clk_prepare_enable(clk) succeeded
devm_action(clk, tx_clk) == [action |-> "clk_disable_unprepare", arg |-> tx_clk]

----------------------------------------------------------------------------
(* meson8b_init_prg_eth, lines 316-369: delay configuration *)

tx_dly_config(tx_ns) == FIELD_PREP(PRG_ETH0_TXDLY_MASK, tx_ns \div 2)

rx_dly_config(rx_ns) ==
    IF rx_ns = 2 THEN Or(PRG_ETH0_ADJ_ENABLE, PRG_ETH0_ADJ_SETUP) ELSE {}

Unsupported == <<>>

\* variant: the RXID and TXID cases exchanged
delay_config_swapped(mode, tx_cfg, rx_cfg) ==
    CASE mode = PHY_INTERFACE_MODE_RGMII -> <<Or(tx_cfg, rx_cfg)>>
      [] mode = PHY_INTERFACE_MODE_RGMII_RXID -> <<rx_cfg>>
      [] mode = PHY_INTERFACE_MODE_RGMII_TXID -> <<tx_cfg>>
      [] mode \in {PHY_INTERFACE_MODE_RGMII_ID, PHY_INTERFACE_MODE_RMII} -> <<{}>>
      [] OTHER -> Unsupported

\* the switch on phy_mode: <<delay_config>>, or Unsupported for the default case
delay_config(mode, tx_cfg, rx_cfg) ==
    CASE mode = PHY_INTERFACE_MODE_RGMII -> <<Or(tx_cfg, rx_cfg)>>
      [] mode = PHY_INTERFACE_MODE_RGMII_RXID -> <<tx_cfg>>
      [] mode = PHY_INTERFACE_MODE_RGMII_TXID -> <<rx_cfg>>
      [] mode \in {PHY_INTERFACE_MODE_RGMII_ID, PHY_INTERFACE_MODE_RMII} -> <<{}>>
      [] OTHER -> Unsupported

\* variant: the timing-adjustment clock block is never entered
timing_adj_needed_never(rx_cfg) == FALSE

\* the condition guarding the timing-adjustment clock block (line 349)
timing_adj_needed(rx_cfg) == And(rx_cfg, PRG_ETH0_ADJ_ENABLE) # {}

DELAY_MASK == Or(PRG_ETH0_TXDLY_MASK,
              Or(PRG_ETH0_ADJ_ENABLE,
              Or(PRG_ETH0_ADJ_SETUP,
              Or(PRG_ETH0_ADJ_DELAY, PRG_ETH0_ADJ_SKEW))))

InitPrgEthDelay ==
    /\ pc = "init_prg_eth"
    /\ LET tx_cfg == tx_dly_config(tx_delay_ns)
           rx_cfg == rx_dly_config(rx_delay_ns)
           dly == delay_config(phy_mode, tx_cfg, rx_cfg)
       IN  IF dly = Unsupported
           THEN /\ log' = Append(log, "unsupported phy-mode")
                /\ ret' = "-EINVAL"
                /\ pc' = "failed"
                /\ UNCHANGED <<regs, ops, clk_enables, devres>>
           ELSE IF timing_adj_needed(rx_cfg) /\ timing_adj_clk = NULL
           THEN /\ log' = Append(log, "The timing-adjustment clock is mandatory for the RX delay re-timing")
                /\ ret' = "-EINVAL"
                /\ pc' = "failed"
                /\ UNCHANGED <<regs, ops, clk_enables, devres>>
           ELSE IF timing_adj_needed(rx_cfg)
           THEN \E enabled \in BOOLEAN :      \* outcome of clk_prepare_enable
                  IF ~enabled
                  THEN /\ log' = Append(log, "Failed to enable the timing-adjustment clock")
                       /\ ret' = "-EIO"
                       /\ pc' = "failed"
                       /\ UNCHANGED <<regs, ops, clk_enables, devres>>
                  ELSE /\ clk_enables' = [clk_enables EXCEPT ![timing_adj_clk] = @ + 1]
                       /\ devres' = Append(devres, devm_action(timing_adj_clk, rgmii_tx_clk))
                       /\ regs' = mask_bits(regs, PRG_ETH0, DELAY_MASK, dly[1])
                       /\ ops' = ops \o <<ClkOp("clk_prepare_enable", timing_adj_clk),
                                          WriteOp(PRG_ETH0, DELAY_MASK, dly[1])>>
                       /\ pc' = "init_prg_eth_clk"
                       /\ UNCHANGED <<ret, log>>
           ELSE /\ regs' = mask_bits(regs, PRG_ETH0, DELAY_MASK, dly[1])
                /\ ops' = Append(ops, WriteOp(PRG_ETH0, DELAY_MASK, dly[1]))
                /\ pc' = "init_prg_eth_clk"
                /\ UNCHANGED <<ret, log, clk_enables, devres>>
    /\ UNCHANGED <<regs0, data, phy_mode, dt_tx, dt_rx, dt_timing_adj,
                   tx_delay_ns, rx_delay_ns, timing_adj_clk, clkin, rgmii_tx_clk,
                   clk_disables>>

----------------------------------------------------------------------------
(* The common clock framework behind dwmac->rgmii_tx_clk: the chain        *)
(* m250_sel (mux) -> m250_div (divider) -> fixed_div2 -> rgmii_tx_en (gate) *)

DivTable == 2..7            \* div_table: .val = .div

Abs(x) == IF x < 0 THEN 0 - x ELSE x

\* output rate of the chain for mux input p and divider d
ChainRate(cin, p, d) == (cin[p][1] \div d) \div 2

\* clk_set_rate on the gate: <<p, d>> giving exactly the target, or <<>>
clk_set_rate(cin, target) ==
    LET Cands == {c \in (DOMAIN cin) \X DivTable : TRUE}
        Dist(c) == Abs(ChainRate(cin, c[1], c[2]) - target)
        Better(c, e) == \/ Dist(c) < Dist(e)
                        \/ Dist(c) = Dist(e) /\ c[1] < e[1]
                        \/ Dist(c) = Dist(e) /\ c[1] = e[1] /\ c[2] <= e[2]
        best == CHOOSE c \in Cands : \A e \in Cands : Better(c, e)
    IN  IF Dist(best) = 0 THEN best ELSE <<>>

\* register effect of selecting mux input p and divider d
clk_rate_regs(r, sel) ==
    LET r1 == mask_bits(r, PRG_ETH0, PRG_ETH0_CLK_M250_SEL_MASK,
                        FIELD_PREP(PRG_ETH0_CLK_M250_SEL_MASK, sel[1]))
    IN  mask_bits(r1, PRG_ETH0, M250_DIV_MASK, FIELD_PREP(M250_DIV_MASK, sel[2]))

\* register effect of enabling the gate
clk_gate_regs(r) ==
    mask_bits(r, PRG_ETH0, BIT(PRG_ETH0_RGMII_TX_CLK_EN), BIT(PRG_ETH0_RGMII_TX_CLK_EN))

TX_CLK_RATE == 125 * 1000 * 1000

----------------------------------------------------------------------------
(* meson8b_init_prg_eth, lines 371-400: RGMII TX clock or RMII clock inversion *)

\* variant: the gate is enabled before the rate is selected
InitPrgEthClk_gate_first ==
    /\ pc = "init_prg_eth_clk"
    /\ IF phy_interface_mode_is_rgmii(phy_mode)
       THEN LET r1 == mask_bits(regs, PRG_ETH0, PRG_ETH0_INVERTED_RMII_CLK, {})
                o1 == Append(ops, WriteOp(PRG_ETH0, PRG_ETH0_INVERTED_RMII_CLK, {}))
                sel == clk_set_rate(clkin, TX_CLK_RATE)
            IN  IF sel = <<>>
                THEN /\ regs' = r1
                     /\ ops' = o1
                     /\ log' = Append(log, "failed to set RGMII TX clock")
                     /\ ret' = "-EINVAL"
                     /\ pc' = "failed"
                     /\ UNCHANGED <<clk_enables, devres>>
                ELSE \E enabled \in BOOLEAN :     \* outcome of clk_prepare_enable
                       IF ~enabled
                       THEN /\ regs' = r1
                            /\ ops' = o1
                            /\ log' = Append(log, "failed to enable the RGMII TX clock")
                            /\ ret' = "-EIO"
                            /\ pc' = "failed"
                            /\ UNCHANGED <<clk_enables, devres>>
                       ELSE /\ regs' = clk_rate_regs(clk_gate_regs(r1), sel)
                            /\ ops' = o1 \o <<ClkOp("clk_prepare_enable", rgmii_tx_clk),
                                              ClkOp("clk_set_rate", rgmii_tx_clk)>>
                            /\ clk_enables' = [clk_enables EXCEPT ![rgmii_tx_clk] = @ + 1]
                            /\ devres' = Append(devres, devm_action(rgmii_tx_clk, rgmii_tx_clk))
                            /\ pc' = "init_prg_eth_ref"
                            /\ UNCHANGED <<ret, log>>
       ELSE /\ regs' = mask_bits(regs, PRG_ETH0, PRG_ETH0_INVERTED_RMII_CLK,
                                 PRG_ETH0_INVERTED_RMII_CLK)
            /\ ops' = Append(ops, WriteOp(PRG_ETH0, PRG_ETH0_INVERTED_RMII_CLK,
                                          PRG_ETH0_INVERTED_RMII_CLK))
            /\ pc' = "init_prg_eth_ref"
            /\ UNCHANGED <<ret, log, clk_enables, devres>>
    /\ UNCHANGED <<regs0, data, phy_mode, dt_tx, dt_rx, dt_timing_adj,
                   tx_delay_ns, rx_delay_ns, timing_adj_clk, clkin, rgmii_tx_clk,
                   clk_disables>>

InitPrgEthClk ==
    /\ pc = "init_prg_eth_clk"
    /\ IF phy_interface_mode_is_rgmii(phy_mode)
       THEN LET r1 == mask_bits(regs, PRG_ETH0, PRG_ETH0_INVERTED_RMII_CLK, {})
                o1 == Append(ops, WriteOp(PRG_ETH0, PRG_ETH0_INVERTED_RMII_CLK, {}))
                sel == clk_set_rate(clkin, TX_CLK_RATE)
            IN  IF sel = <<>>
                THEN /\ regs' = r1
                     /\ ops' = o1
                     /\ log' = Append(log, "failed to set RGMII TX clock")
                     /\ ret' = "-EINVAL"
                     /\ pc' = "failed"
                     /\ UNCHANGED <<clk_enables, devres>>
                ELSE \E enabled \in BOOLEAN :     \* outcome of clk_prepare_enable
                       IF ~enabled
                       THEN /\ regs' = clk_rate_regs(r1, sel)
                            /\ ops' = Append(o1, ClkOp("clk_set_rate", rgmii_tx_clk))
                            /\ log' = Append(log, "failed to enable the RGMII TX clock")
                            /\ ret' = "-EIO"
                            /\ pc' = "failed"
                            /\ UNCHANGED <<clk_enables, devres>>
                       ELSE /\ regs' = clk_gate_regs(clk_rate_regs(r1, sel))
                            /\ ops' = o1 \o <<ClkOp("clk_set_rate", rgmii_tx_clk),
                                              ClkOp("clk_prepare_enable", rgmii_tx_clk)>>
                            /\ clk_enables' = [clk_enables EXCEPT ![rgmii_tx_clk] = @ + 1]
                            /\ devres' = Append(devres, devm_action(rgmii_tx_clk, rgmii_tx_clk))
                            /\ pc' = "init_prg_eth_ref"
                            /\ UNCHANGED <<ret, log>>
       ELSE /\ regs' = mask_bits(regs, PRG_ETH0, PRG_ETH0_INVERTED_RMII_CLK,
                                 PRG_ETH0_INVERTED_RMII_CLK)
            /\ ops' = Append(ops, WriteOp(PRG_ETH0, PRG_ETH0_INVERTED_RMII_CLK,
                                          PRG_ETH0_INVERTED_RMII_CLK))
            /\ pc' = "init_prg_eth_ref"
            /\ UNCHANGED <<ret, log, clk_enables, devres>>
    /\ UNCHANGED <<regs0, data, phy_mode, dt_tx, dt_rx, dt_timing_adj,
                   tx_delay_ns, rx_delay_ns, timing_adj_clk, clkin, rgmii_tx_clk,
                   clk_disables>>

\* variant: the final write hits the inverted-RMII-clock bit
InitPrgEthRefClk_wrong_bit ==
    /\ pc = "init_prg_eth_ref"
    /\ regs' = mask_bits(regs, PRG_ETH0, PRG_ETH0_INVERTED_RMII_CLK,
                         PRG_ETH0_INVERTED_RMII_CLK)
    /\ ops' = Append(ops, WriteOp(PRG_ETH0, PRG_ETH0_INVERTED_RMII_CLK,
                                  PRG_ETH0_INVERTED_RMII_CLK))
    /\ ret' = "0"
    /\ pc' = "bound"
    /\ UNCHANGED <<regs0, data, phy_mode, dt_tx, dt_rx, dt_timing_adj,
                   tx_delay_ns, rx_delay_ns, timing_adj_clk, clkin, rgmii_tx_clk,
                   clk_enables, clk_disables, devres, log>>

(* meson8b_init_prg_eth, lines 402-406, and the successful end of the probe *)

InitPrgEthRefClk ==
    /\ pc = "init_prg_eth_ref"
    /\ regs' = mask_bits(regs, PRG_ETH0, PRG_ETH0_TX_AND_PHY_REF_CLK,
                         PRG_ETH0_TX_AND_PHY_REF_CLK)
    /\ ops' = Append(ops, WriteOp(PRG_ETH0, PRG_ETH0_TX_AND_PHY_REF_CLK,
                                  PRG_ETH0_TX_AND_PHY_REF_CLK))
    /\ ret' = "0"
    /\ pc' = "bound"
    /\ UNCHANGED <<regs0, data, phy_mode, dt_tx, dt_rx, dt_timing_adj,
                   tx_delay_ns, rx_delay_ns, timing_adj_clk, clkin, rgmii_tx_clk,
                   clk_enables, clk_disables, devres, log>>

----------------------------------------------------------------------------
(* Device teardown: the devm actions run, last registered first *)

RECURSIVE RunActions(_, _)
RunActions(acts, counts) ==
    IF acts = <<>> THEN counts
    ELSE LET a == acts[Len(acts)]
         IN  RunActions(SubSeq(acts, 1, Len(acts) - 1),
                        IF a.arg = NULL THEN counts
                        ELSE [counts EXCEPT ![a.arg] = @ + 1])

DevresRelease ==
    /\ pc \in {"bound", "failed"}
    /\ clk_disables' = RunActions(devres, clk_disables)
    /\ devres' = <<>>
    /\ pc' = "released"
    /\ UNCHANGED <<regs, regs0, data, phy_mode, dt_tx, dt_rx, dt_timing_adj,
                   tx_delay_ns, rx_delay_ns, timing_adj_clk, clkin, rgmii_tx_clk,
                   clk_enables, ret, log, ops>>

----------------------------------------------------------------------------

Next ==
    \/ ProbeConfig
    \/ InitRgmiiTxClk
    \/ SetPhyMode
    \/ InitPrgEthDelay
    \/ InitPrgEthClk
    \/ InitPrgEthRefClk
    \/ DevresRelease

Spec == Init /\ [][Next]_vars

----------------------------------------------------------------------------
(* meson8b_dwmac_mask_bits on its own: any register block, mask and value *)

TestWords == Seeds \cup {PRG_ETH0_RGMII_MODE, PRG_ETH0_EXT_PHY_MODE_MASK,
                         PRG_ETH0_TXDLY_MASK, DELAY_MASK,
                         PRG_ETH0_INVERTED_RMII_CLK, PRG_ETH0_TX_AND_PHY_REF_CLK,
                         Bits(PRG_ETH0_EXT_RGMII_MODE), Bits(PRG_ETH0_EXT_RMII_MODE)}

InitMask ==
    /\ regs \in [{PRG_ETH0, PRG_ETH1} -> Seeds]
    /\ regs0 = regs
    /\ data = "meson8b"
    /\ phy_mode = PHY_INTERFACE_MODE_RGMII
    /\ dt_tx = Absent
    /\ dt_rx = Absent
    /\ dt_timing_adj = FALSE
    /\ tx_delay_ns = 0
    /\ rx_delay_ns = 0
    /\ timing_adj_clk = NULL
    /\ clkin = [i \in 0..(MUX_CLK_NUM_PARENTS - 1) |-> Absent]
    /\ rgmii_tx_clk = NULL
    /\ clk_enables = [c \in Clocks |-> 0]
    /\ clk_disables = [c \in Clocks |-> 0]
    /\ devres = <<>>
    /\ pc = "mask_bits"
    /\ ret = "0"
    /\ log = <<>>
    /\ ops = <<>>

MaskBitsCall ==
    /\ pc = "mask_bits"
    /\ \E mask \in TestWords, value \in TestWords :
         /\ regs' = mask_bits(regs, PRG_ETH0, mask, value)
         /\ ops' = Append(ops, WriteOp(PRG_ETH0, mask, value))
    /\ pc' = "mask_bits_done"
    /\ UNCHANGED <<regs0, data, phy_mode, dt_tx, dt_rx, dt_timing_adj,
                   tx_delay_ns, rx_delay_ns, timing_adj_clk, clkin, rgmii_tx_clk,
                   clk_enables, clk_disables, devres, ret, log>>

SpecMaskBits == InitMask /\ [][MaskBitsCall]_vars

----------------------------------------------------------------------------
(* Vocabulary of the properties *)

R0 == regs[PRG_ETH0]
Old0 == regs0[PRG_ETH0]

Terminal == pc \in {"bound", "failed", "released"}
Succeeded == pc \in {"bound", "released"} /\ ret = "0"
FailedWith(msg) == pc \in {"failed", "released"} /\ ret # "0" /\ log = <<msg>>

MsgRxDelay == "The only allowed RX delays values are: 0ns, 2ns"
MsgTimingAdj == "The timing-adjustment clock is mandatory for the RX delay re-timing"
MsgSetPhyMode == "fail to set phy-mode"
MsgNoPhyMode == "missing phy-mode property"
MsgMissingClock == {"Missing clock clkin0", "Missing clock clkin1"}

InvalidDelayValue == FailedWith(MsgRxDelay) /\ ret = "-EINVAL"
MissingTimingAdjustmentClock == FailedWith(MsgTimingAdj) /\ ret = "-EINVAL"
UnsupportedPhyMode == (FailedWith(MsgSetPhyMode) \/ FailedWith(MsgNoPhyMode)) /\ ret = "-EINVAL"
MissingParentClock == (\E m \in MsgMissingClock : FailedWith(m)) /\ ret = "-ENOENT"

ParentsFound == \A i \in DOMAIN clkin : clkin[i] # Absent
SameBits(a, b, bits) == \A i \in bits : (i \in a) <=> (i \in b)
NoClockEnabled == \A c \in Clocks : clk_enables[c] = 0

\* the interface-mode field as the selected family leaves it
ModeBitsWritten ==
    IF data = "axg"
    THEN FIELD_GET(0..2, R0) = (IF phy_mode = PHY_INTERFACE_MODE_RMII THEN 4 ELSE 1)
    ELSE /\ (0 \in R0) <=> (phy_mode # PHY_INTERFACE_MODE_RMII)
         /\ SameBits(R0, Old0, 1..2)

----------------------------------------------------------------------------
\* C1: one call of meson8b_dwmac_mask_bits on PRG_ETH0 leaves every bit
\* outside the mask at its prior value, gives every bit inside the mask the
\* corresponding bit of value, and does not write PRG_ETH1.
C1_MaskBitsFrame ==
    pc = "mask_bits_done" =>
        /\ \A b \in WORD :
             (b \in R0) <=> (IF b \in ops[1].mask THEN b \in ops[1].value ELSE b \in Old0)
        /\ regs[PRG_ETH1] = regs0[PRG_ETH1]

C1_Witness ==
    /\ pc = "mask_bits_done"
    /\ Old0 = WORD
    /\ ops[1].mask = PRG_ETH0_TXDLY_MASK
    /\ ops[1].value = Bits(PRG_ETH0_EXT_RMII_MODE)
    /\ R0 = WORD \ (5..6)

\* C2: after a successful initialization with tx_delay_ns in {0,2,4,6}, the
\* tx field [6:5] and the adjust bits 13 and 14 are those the mode selects,
\* and the adjust-delay [19:15] and adjust-skew [24:20] fields are 0.
C2_DelayFields ==
    (Succeeded /\ tx_delay_ns \in {0, 2, 4, 6}) =>
        LET txf == FIELD_GET(5..6, R0)
            adj == 13 \in R0
            rx2 == rx_delay_ns = 2
        IN  /\ rx_delay_ns \in {0, 2}
            /\ (13 \in R0) <=> (14 \in R0)
            /\ phy_mode = PHY_INTERFACE_MODE_RGMII =>
                 txf = tx_delay_ns \div 2 /\ (adj <=> rx2)
            /\ phy_mode = PHY_INTERFACE_MODE_RGMII_RXID =>
                 txf = tx_delay_ns \div 2 /\ ~adj
            /\ phy_mode = PHY_INTERFACE_MODE_RGMII_TXID =>
                 txf = 0 /\ (adj <=> rx2)
            /\ phy_mode \in {PHY_INTERFACE_MODE_RGMII_ID, PHY_INTERFACE_MODE_RMII} =>
                 txf = 0 /\ ~adj
            /\ R0 \cap (15..24) = {}

C2_Witness ==
    /\ Succeeded
    /\ phy_mode = PHY_INTERFACE_MODE_RGMII_TXID
    /\ tx_delay_ns = 4
    /\ rx_delay_ns = 2
    /\ Old0 = WORD
    /\ R0 \cap (5..6) = {}
    /\ {13, 14} \subseteq R0

\* C3: right after set_phy_mode, the Extended family has written 1 (RGMII
\* family) or 4 (RMII) to bits [2:0]; the Legacy family has set bit 0 (RGMII
\* family) or cleared it (RMII) and kept bits [2:1]; no other bit changed; for
\* a mode outside the five, the call fails with -EINVAL and writes nothing.
C3_PhyModeField ==
    /\ pc = "init_prg_eth" =>
         /\ phy_mode \in FiveModes
         /\ ModeBitsWritten
         /\ SameBits(R0, Old0, 3..31)
    /\ phy_mode \notin FiveModes =>
         /\ pc \notin {"init_prg_eth", "init_prg_eth_clk", "init_prg_eth_ref", "bound"}
         /\ regs = regs0
         /\ (Terminal /\ ParentsFound /\ phy_mode # PHY_MODE_MISSING) =>
              FailedWith(MsgSetPhyMode) /\ ret = "-EINVAL"

C3_Witness ==
    /\ pc = "init_prg_eth"
    /\ data = "meson8b"
    /\ phy_mode = PHY_INTERFACE_MODE_RMII
    /\ Old0 = WORD
    /\ R0 = WORD \ {0}

\* C4: the register-modifying steps of one run are issued in the order
\* interface mode, delay/adjust, then (RGMII family) clear inverted-RMII-clock,
\* select the TX clock rate, enable the TX clock gate, or (RMII) set
\* inverted-RMII-clock, and bit 12 last: the steps issued so far are always
\* an initial part of that sequence, and a successful run issued all of it.
StepKind(o) ==
    IF o.op = "clk_set_rate" THEN "set_rate"
    ELSE IF o.op = "clk_prepare_enable" THEN "gate_enable"
    ELSE IF o.mask \subseteq 0..2 THEN "mode"
    ELSE IF 5 \in o.mask THEN "delay"
    ELSE IF o.mask = {11} /\ o.value = {} THEN "invert_clear"
    ELSE IF o.mask = {11} /\ o.value = {11} THEN "invert_set"
    ELSE IF o.mask = {12} /\ o.value = {12} THEN "ref_enable"
    ELSE "other"

IsRegisterStep(o) == ~(o.op = "clk_prepare_enable" /\ o.clk = TIMING_ADJ)
RegisterSteps == LET rs == SelectSeq(ops, IsRegisterStep)
                 IN  [i \in 1..Len(rs) |-> StepKind(rs[i])]

StatedOrder ==
    IF phy_mode \in RgmiiModes
    THEN <<"mode", "delay", "invert_clear", "set_rate", "gate_enable", "ref_enable">>
    ELSE IF phy_mode = PHY_INTERFACE_MODE_RMII
    THEN <<"mode", "delay", "invert_set", "ref_enable">>
    ELSE <<>>

C4_StepOrder ==
    /\ Len(RegisterSteps) <= Len(StatedOrder)
    /\ RegisterSteps = SubSeq(StatedOrder, 1, Len(RegisterSteps))
    /\ Succeeded => RegisterSteps = StatedOrder

C4_Witness ==
    /\ Succeeded
    /\ phy_mode = PHY_INTERFACE_MODE_RGMII
    /\ rx_delay_ns = 2
    /\ Len(ops) = 7
    /\ ops[2] = ClkOp("clk_prepare_enable", TIMING_ADJ)
    /\ ops[5] = ClkOp("clk_set_rate", RGMII_TX_EN)
    /\ ops[6] = ClkOp("clk_prepare_enable", RGMII_TX_EN)

\* C5: for every tx_delay_ns outside {0,2,4,6} the initialization is rejected
\* before the tx-delay field is written: no delay/adjust write is issued and
\* the probe does not succeed.
C5_TxDelayRejected ==
    (dt_tx # Absent /\ dt_tx[1] \notin {0, 2, 4, 6}) =>
        /\ ~Succeeded
        /\ \A i \in 1..Len(ops) : ops[i].op = "mask_bits" => ~(5 \in ops[i].mask)

\* C6: with rx_delay_ns = 2 and no timing-adjustment clock (mux parents found,
\* mode one of the five) the run fails with the missing-timing-adjustment-clock
\* error; at that failure the interface-mode bits hold their new value, every
\* other bit of PRG_ETH0 holds its prior value, the interface-mode write is the
\* only operation issued and no clock was enabled.
C6_MissingTimingAdjClk ==
    /\ (Terminal /\ rx_delay_ns = 2 /\ timing_adj_clk = NULL
          /\ ParentsFound /\ phy_mode \in FiveModes) =>
         MissingTimingAdjustmentClock
    /\ MissingTimingAdjustmentClock =>
         /\ rx_delay_ns = 2 /\ timing_adj_clk = NULL
         /\ ModeBitsWritten
         /\ SameBits(R0, Old0, 3..31)
         /\ Len(ops) = 1 /\ StepKind(ops[1]) = "mode"
         /\ NoClockEnabled

C6_Witness ==
    /\ MissingTimingAdjustmentClock
    /\ phy_mode = PHY_INTERFACE_MODE_RGMII
    /\ data = "axg"
    /\ Old0 = WORD
    /\ R0 = WORD \ {1, 2}

\* C7: for RGMII_RXID, RGMII_ID and RMII with rx_delay_ns = 2 and no
\* timing-adjustment clock the run does not fail with the
\* missing-timing-adjustment-clock error, and the timing-adjustment clock is
\* enabled only in runs where adjust-enable (bit 13) ends up set.
C7_TimingAdjOnlyWhenUsed ==
    /\ (phy_mode \in {PHY_INTERFACE_MODE_RGMII_RXID, PHY_INTERFACE_MODE_RGMII_ID,
                      PHY_INTERFACE_MODE_RMII}
          /\ rx_delay_ns = 2 /\ timing_adj_clk = NULL) =>
         ~MissingTimingAdjustmentClock
    /\ (Succeeded /\ clk_enables[TIMING_ADJ] > 0) => 13 \in R0

\* C8: after a successful initialization bit 12 is set, bit 11 is set exactly
\* in RMII mode, and the TX clock is configured (rate selected, gate bit 10
\* set) exactly in the RGMII-family modes; in RMII mode neither clk_set_rate
\* nor the gate enable is issued and bits 4, [9:7] and 10 keep their values.
TxClkOps == {i \in 1..Len(ops) : ops[i].op \in {"clk_set_rate", "clk_prepare_enable"}
                                  /\ ops[i].clk = RGMII_TX_EN}

C8_ClockBits ==
    Succeeded =>
        /\ 12 \in R0
        /\ (11 \in R0) <=> (phy_mode = PHY_INTERFACE_MODE_RMII)
        /\ phy_mode \in RgmiiModes =>
             /\ 10 \in R0
             /\ \E i, j \in TxClkOps : i < j /\ ops[i].op = "clk_set_rate"
                                             /\ ops[j].op = "clk_prepare_enable"
             /\ ChainRate(clkin, FIELD_GET({4}, R0), FIELD_GET(7..9, R0)) = 125000000
        /\ phy_mode = PHY_INTERFACE_MODE_RMII =>
             /\ TxClkOps = {}
             /\ clk_enables[RGMII_TX_EN] = 0
             /\ SameBits(R0, Old0, {4, 7, 8, 9, 10})

C8_Witness ==
    /\ Succeeded
    /\ phy_mode = PHY_INTERFACE_MODE_RMII
    /\ Old0 = WORD
    /\ {4, 7, 8, 9, 10, 11, 12} \subseteq R0

\* C9: an invalid RX delay, a missing mux parent or a mode outside the five
\* makes the probe fail with the matching error before any register write:
\* PRG_ETH0 and PRG_ETH1 equal their prior values, nothing was issued and no
\* clock was enabled.
C9_EarlyErrorsLeaveRegister ==
    (Terminal /\ (~ParentsFound \/ phy_mode \notin FiveModes
                    \/ rx_delay_ns \notin {0, 2})) =>
        /\ pc # "bound" /\ ret # "0"
        /\ regs = regs0
        /\ ops = <<>>
        /\ NoClockEnabled
        /\ InvalidDelayValue \/ MissingParentClock \/ UnsupportedPhyMode
        /\ InvalidDelayValue => rx_delay_ns \notin {0, 2}
        /\ UnsupportedPhyMode => phy_mode \notin FiveModes
        /\ (rx_delay_ns \notin {0, 2}) => InvalidDelayValue

C9_Witness ==
    /\ Terminal
    /\ phy_mode = PHY_INTERFACE_MODE_MII
    /\ ParentsFound
    /\ UnsupportedPhyMode
    /\ Old0 = WORD
    /\ R0 = WORD

\* C10: after initialization followed by teardown every clock was disabled
\* exactly as often as it was enabled.
C10_ClockBalance ==
    pc = "released" => \A c \in Clocks : clk_disables[c] = clk_enables[c]

====
